---- MODULE Spec2Model ----
(***************************************************************************)
(* fp-toolkit: the lazy Async producer (src/src/Async.ts) and the Result   *)
(* sum type (src/src/Result.ts).                                           *)
(*                                                                         *)
(* An Async is a zero-argument closure returning a promise.  A constructed *)
(* Async is modelled as a term (the closure and what it captured); calling *)
(* it creates one promise per producer position.  Positions are keys: the  *)
(* run number followed by the path from the started producer down to the   *)
(* wrapped producer.  Promise reaction jobs (the body of a .then callback, *)
(* the code after an await) are steps of their own.                        *)
(***************************************************************************)
EXTENDS Integers, Sequences, FiniteSets, TLC

\* Most producers handed to sequential / parallel within one constructed
\* Async, the producers of a list nested in a list included.
MaxLen == 2
\* How often the constructed producer is started.
MaxStarts == 2
\* How many combinators are nested around the innermost producer.
MaxDepth == 2

\* Longest pipeline of Result combinators.
MaxChain == 3
\* Payloads of the Results fed to a pipeline are 0 .. MaxNum.
MaxNum == 1
\* delay is given num / den milliseconds, num in -MaxMs .. MaxMs, den in 1 .. MaxDen.
MaxMs == 5
MaxDen == 2

\* How many combinators are nested around an ofPromise producer.
MaxHotDepth == 1
\* How often a producer whose projection may throw is started.
MaxThrowStarts == 1

VARIABLES
    prog,     \* the Async constructed so far (a closure, as a term)
    runs,     \* number of times prog has been started
    nodes,    \* key -> promise and local state of the producer called at key
    rin,      \* the Result a pipeline of Result combinators starts from
    rv,       \* the value the pipeline has produced so far
    rchain,   \* the combinators applied so far, [op, f]
    rargs,    \* the Results handed to the last combinator
    rlog,     \* per combinator applied, the calls it made to the caller's f
    rthrown,  \* whether the last combinator ended by a throw (rv is what was thrown)
    delayIn,  \* the number last handed to delay
    delayOut  \* the pause computed from it

avars == <<prog, runs, nodes>>

rvars == <<rin, rv, rchain, rargs, rlog, rthrown, delayIn, delayOut>>

vars == <<avars, rvars>>

NoVal == <<>>

\* ---------------------------------------------------------------- Result
Ok(ok) == [tag |-> "Ok", ok |-> ok]

Err(err) == [tag |-> "Err", err |-> err]

isOk(result) == result.tag = "Ok"

isErr(result) == result.tag = "Err"

\* JavaScript values handed to the Result combinators: numbers and functions.
Num(n) == [ty |-> "number", v |-> n]

Str(s) == [ty |-> "string", v |-> s]

Undefined == [ty |-> "undefined"]

Null == [ty |-> "null"]

\* An Error instance, and an instance of its subclass TypeError.
Error(message) == [ty |-> "error", name |-> "Error", message |-> message]

TypeError(message) == [ty |-> "error", name |-> "TypeError", message |-> message]

\* An object with no prototype, Object.create(null): it has no toString.
BareObject == [ty |-> "object", proto |-> "null"]

\* A function of the caller, by name.
Fn(f) == [ty |-> "function", lam |-> "user", f |-> f]

\* A closure written in Result.ts, by the place it is written at, with the
\* function of the caller it captured.
Closure(lam, f) == [ty |-> "function", lam |-> lam, f |-> f.f]

\* How a call ended: the value returned (or thrown), and the calls made to
\* functions of the caller on the way, oldest first.
Return(v) == [ret |-> v, calls |-> <<>>, thrown |-> FALSE]

Throw(v) == [ret |-> v, calls |-> <<>>, thrown |-> TRUE]

\* The caller's functions.  inc, id: number -> number.  half: number ->
\* Result, Ok of the half of an even number and Err of an odd one.  okinc:
\* number -> Result, Ok of the successor.  fail: number -> Result, Err of its
\* argument.  add: the sum of two or three numbers.  boom throws the number -1.
\* one: () => 1.  log returns undefined.  arity: (...args) => args.length.
\* handle: thrown => ({ cause: thrown }).  boomStr throws the string "boom",
\* boomErr an Error and boomBare an object that has no string conversion.
UserFn(f, args) ==
    CASE f = "inc"  -> Return(Num(args[1].v + 1))
      [] f = "id"   -> Return(args[1])
      [] f = "half" -> IF args[1].v % 2 = 0
                            THEN Return(Ok(Num(args[1].v \div 2)))
                            ELSE Return(Err(args[1]))
      [] f = "okinc" -> Return(Ok(Num(args[1].v + 1)))
      [] f = "fail" -> Return(Err(args[1]))
      [] f = "add"  -> IF Len(args) = 2
                            THEN Return(Num(args[1].v + args[2].v))
                            ELSE Return(Num(args[1].v + args[2].v + args[3].v))
      [] f = "boom" -> Throw(Num(-1))
      [] f = "one" -> Return(Num(1))
      [] f = "log" -> Return(Undefined)
      [] f = "arity" -> Return(Num(Len(args)))
      [] f = "handle" -> Return([ty |-> "object", cause |-> args[1]])
      [] f = "boomStr" -> Throw(Str("boom"))
      [] f = "boomErr" -> Throw(Error("bad"))
      [] f = "boomBare" -> Throw(BareObject)

CallUser(f, args) ==
    [UserFn(f, args) EXCEPT !.calls = <<[f |-> f, args |-> args]>>]

\* Mutant of map_ok: what f throws is caught and comes out as an Err.
map_ok_caught(f, a) ==
    LET o == CallUser(f, <<a>>)
    IN  IF o.thrown
            THEN [o EXCEPT !.ret = Err(o.ret), !.thrown = FALSE]
            ELSE [o EXCEPT !.ret = Ok(o.ret)]

\* Mutant of map_ok: the projected value comes out as a failure.
map_ok_failed(f, a) ==
    LET o == CallUser(f, <<a>>)
    IN  IF o.thrown THEN o ELSE [o EXCEPT !.ret = Err(o.ret)]

\* map, line 104: a => Ok(f(a))
map_ok(f, a) ==
    LET o == CallUser(f, <<a>>)
    IN  IF o.thrown THEN o ELSE [o EXCEPT !.ret = Ok(o.ret)]

\* Mutant of pass_err: the failure comes out as a success.
pass_err_swallowed(e) == Return(Ok(e))

\* map, line 105, and bind, line 168: e => Err(e)
pass_err(e) == Return(Err(e))

\* defaultValue, line 139, and defaultWith, line 148: a => a
payload(a) == Return(a)

\* Mutant of tee_ok: the value f returns is wrapped (what map does).
tee_ok_mapped(f, a) ==
    LET o == CallUser(f, <<a>>)
    IN  IF o.thrown THEN o ELSE [o EXCEPT !.ret = Ok(o.ret)]

\* tee, lines 272-275: a => { f(a); return Ok(a) }
tee_ok(f, a) ==
    LET o == CallUser(f, <<a>>)
    IN  IF o.thrown THEN o ELSE [o EXCEPT !.ret = Ok(a)]

\* teeErr, lines 294-297: e => { f(e); return Err(e) }
teeErr_err(f, e) ==
    LET o == CallUser(f, <<e>>)
    IN  IF o.thrown THEN o ELSE [o EXCEPT !.ret = Err(e)]

\* The constructors Ok and Err handed to match as handlers (lines 276, 293),
\* and the a => a of lines 139 and 148.
OkFn == [ty |-> "function", lam |-> "Ok"]

ErrFn == [ty |-> "function", lam |-> "Err"]

PayloadFn == [ty |-> "function", lam |-> "payload"]

RECURSIVE Result_bind(_, _)

\* The caller's a2 => Result.bind(g)(f(a2)), the right-hand side of the
\* associativity law of bind.
BindAfter(f, g) == [ty |-> "function", lam |-> "bind_after", f |-> f.f, g |-> g.f]

bind_after(f, g, a2) ==
    LET o1 == CallUser(f, <<a2>>)
        o2 == Result_bind(Fn(g), o1.ret)
    IN  IF o1.thrown THEN o1 ELSE [o2 EXCEPT !.calls = o1.calls \o o2.calls]

\* A function value is called with one argument.
Call(fn, arg) ==
    CASE fn.lam = "user"       -> CallUser(fn.f, <<arg>>)
      [] fn.lam = "map_ok"     -> map_ok(fn.f, arg)
      [] fn.lam = "pass_err"   -> pass_err(arg)
      [] fn.lam = "bind_after" -> bind_after(fn.f, fn.g, arg)
      [] fn.lam = "payload"    -> payload(arg)
      [] fn.lam = "tee_ok"     -> tee_ok(fn.f, arg)
      [] fn.lam = "teeErr_err" -> teeErr_err(fn.f, arg)
      [] fn.lam = "Ok"         -> Return(Ok(arg))
      [] fn.lam = "Err"        -> Return(Err(arg))

isRawValue(caseFn) ==
    ~("ty" \in DOMAIN caseFn /\ caseFn.ty = "function")

getMatcherResult(match, arg) ==
    IF isRawValue(match) THEN Return(match) ELSE Call(match, arg)

Result_match(matcher, result) ==
    CASE result.tag = "Ok"  -> getMatcherResult(matcher.ok, result.ok)
      [] result.tag = "Err" -> getMatcherResult(matcher.err, result.err)

Result_map(f, result) ==
    Result_match([ok |-> Closure("map_ok", f), err |-> Closure("pass_err", f)],
                 result)

\* defaultValue: match({ ok: a => a, err: a }), a being the default.
defaultValue(a, result) == Result_match([ok |-> PayloadFn, err |-> a], result)

\* defaultWith: match({ ok: a => a, err: f })
defaultWith(f, result) == Result_match([ok |-> PayloadFn, err |-> f], result)

\* Mutant of Result_bind: an Err returned by f is replaced by the input.
Result_bind_recover(f, result) ==
    LET o == Result_match([ok |-> f, err |-> Closure("pass_err", f)], result)
    IN  IF isOk(result) /\ ~o.thrown /\ isErr(o.ret)
            THEN [o EXCEPT !.ret = result]
            ELSE o

Result_bind(f, result) ==
    Result_match([ok |-> f, err |-> Closure("pass_err", f)], result)

\* Mutant of map2: when both are Err, the second one wins.
map2_last(map, results) ==
    IF isOk(results[1]) /\ isOk(results[2])
        THEN LET o == CallUser(map.f, <<results[1].ok, results[2].ok>>)
             IN  IF o.thrown THEN o ELSE [o EXCEPT !.ret = Ok(o.ret)]
        ELSE IF isErr(results[2])
            THEN Return(Err(results[2].err))
            ELSE Return(Err(results[1].err))

\* map2's map is called like any function of the caller and a throw of it
\* leaves map2 too.
map2(map, results) ==
    IF isOk(results[1]) /\ isOk(results[2])
        THEN LET o == CallUser(map.f, <<results[1].ok, results[2].ok>>)
             IN  IF o.thrown THEN o ELSE [o EXCEPT !.ret = Ok(o.ret)]
        ELSE IF isErr(results[1])
            THEN Return(Err(results[1].err))
            ELSE Return(Err(results[2].err))

map3(map, results) ==
    IF isOk(results[1]) /\ isOk(results[2]) /\ isOk(results[3])
        THEN LET o == CallUser(map.f,
                               <<results[1].ok, results[2].ok, results[3].ok>>)
             IN  IF o.thrown THEN o ELSE [o EXCEPT !.ret = Ok(o.ret)]
        ELSE IF isErr(results[1])
            THEN Return(Err(results[1].err))
        ELSE IF isErr(results[2])
            THEN Return(Err(results[2].err))
            ELSE Return(Err(results[3].err))

Result_tee(f, result) ==
    Result_match([ok |-> Closure("tee_ok", f), err |-> ErrFn], result)

Result_teeErr(f, result) ==
    Result_match([ok |-> OkFn, err |-> Closure("teeErr_err", f)], result)

\* JavaScript's String(value): the string itself, the decimal numeral of a
\* number, "undefined", "null", name and message of an Error; an object with no
\* toString and no valueOf cannot be converted and String throws a TypeError.
String(value) ==
    CASE value.ty = "string"    -> Return(value)
      [] value.ty = "number"    -> Return(Str(ToString(value.v)))
      [] value.ty = "undefined" -> Return(Str("undefined"))
      [] value.ty = "null"      -> Return(Str("null"))
      [] value.ty = "error"     -> Return(Str(value.name \o ": " \o value.message))
      [] value.ty = "object"    ->
            Throw(TypeError("Cannot convert object to primitive value"))

\* tryCatch, line 244: err instanceof Error ? err : Error(String(err))
toError(err) ==
    IF err.ty = "error"
        THEN Return(err)
        ELSE LET str == String(err)
             IN  IF str.thrown THEN str ELSE Return(Error(str.ret.v))

\* tryCatch, lines 246-253.  onThrow is a function, or undefined when it was
\* not given.  What is thrown inside the catch block leaves tryCatch.
tryCatch(mightThrow, onThrow) ==
    LET o == CallUser(mightThrow.f, <<>>)
        h == CallUser(onThrow.f, <<o.ret>>)
        e == toError(o.ret)
    IN  IF ~o.thrown THEN [o EXCEPT !.ret = Ok(o.ret)]
        ELSE IF onThrow.ty \notin {"undefined", "null"}
            THEN [h EXCEPT !.ret = IF h.thrown THEN h.ret ELSE Err(h.ret),
                           !.calls = o.calls \o h.calls]
            ELSE [e EXCEPT !.ret = IF e.thrown THEN e.ret ELSE Err(e.ret),
                           !.calls = o.calls]

\* ------------------------------------------------- callbacks given to Async
\* f of map: "wrap" returns a new value, "boom" throws.
Fns == {"wrap", "boom"}

\* f of tee: "wrap" returns.
TeeFns == {"wrap"}

Throws(f) == f = "boom"

Apply(f, a) == <<f, a>>

Thrown(f, key) == <<"thrown", f, key>>

\* ---------------------------------------------------- Async constructors
\* Each returns the closure; none of them calls anything.
Async_of(a) == [k |-> "of", a |-> a]

Async_map(f, async) == [k |-> "map", f |-> f, p |-> async]

Async_bind(f, async) == [k |-> "bind", f |-> f, p |-> async]

Async_flatten(async) == [k |-> "flatten", p |-> async]

Async_delay(delayInMilliseconds, async) ==
    [k |-> "delay", ms |-> delayInMilliseconds, p |-> async]

Async_sequential(asyncs) == [k |-> "sequential", ps |-> asyncs]

Async_parallel(asyncs) == [k |-> "parallel", ps |-> asyncs]

Async_asyncify(args) == [k |-> "asyncify", id |-> args]

Async_tee(f, async) == [k |-> "tee", f |-> f, p |-> async]

\* promise is the place in the heap of a promise that exists already.
Async_ofPromise(promise) == [k |-> "ofPromise", promise |-> promise]

\* f of bind: "wrap" returns Async.of of a new value, "spawn" returns an
\* asyncified call, "boom" throws.
BindFns == {"wrap", "spawn", "boom"}

ApplyBind(f, a) ==
    IF f = "wrap" THEN Async_of(Apply(f, a)) ELSE Async_asyncify(0)

\* ------------------------------------------------------------ promise heap
\* State of the producer called at one position: its promise (st, val), the
\* locals of its body (i, acc), the elements Promise.all has heard of, in that
\* order (done), how often the producer at this position was called (n), how
\* often its callback f was called (fc), and the timer it armed: its pause (ms,
\* -1 when it armed none) and whether it is armed or has gone off (timer).
\* promise is NoVal when the call made the promise it returned, and the place
\* of the promise when the call returned one that existed before.
Node(t) ==
    [t |-> t, st |-> "pending", val |-> NoVal, i |-> 0, acc |-> <<>>,
     done |-> <<>>, n |-> 1, fc |-> 0, ms |-> -1, timer |-> "none",
     promise |-> NoVal]

Put(N, key, rec) ==
    IF key \in DOMAIN N
        THEN [N EXCEPT ![key] = [rec EXCEPT !.n = N[key].n + 1]]
        ELSE N @@ (key :> rec)

Child(key, j) == Append(key, j)

Settled(N, key) == key \in DOMAIN N /\ N[key].st # "pending"

Resolve(N, key, v) == [N EXCEPT ![key].st = "fulfilled", ![key].val = v]

Reject(N, key, e) == [N EXCEPT ![key].st = "rejected", ![key].val = e]

\* A promise resolved with another promise takes on its state.
Adopt(N, key, from) ==
    [N EXCEPT ![key].st = N[from].st, ![key].val = N[from].val]

RECURSIVE Invoke(_, _, _)

\* const start = async => async()
start(N, key, async) == Invoke(async, key, N)

\* of: () => Promise.resolve(a)
of_call(N, key, t) == Resolve(Put(N, key, Node(t)), key, t.a)

\* Mutant of ofPromise_call: the work behind the promise is started again and
\* the call returns a promise of its own.
ofPromise_call_restart(N, key, t) ==
    Put([N EXCEPT ![t.promise].n = @ + 1], key, Node(t))

\* ofPromise: () => promise.  The call returns the promise it was given: the
\* same object, in the state it is in.
ofPromise_call(N, key, t) ==
    Put(N, key, [N[t.promise] EXCEPT !.t = t, !.n = 1, !.promise = t.promise])

\* Mutant of asyncify_call: f was called once when the Async was built and
\* every later call hands back that first promise (n = 0: f is not called).
asyncify_call_cached(N, key, t) ==
    LET first == <<1>> \o Tail(key)
    IN  IF key[1] > 1 /\ first \in DOMAIN N
            THEN Put(N, key, [N[first] EXCEPT !.n = 0])
            ELSE Put(N, key, Node(t))

\* asyncify: () => f(...args); f is called and hands back its promise, which
\* the environment settles later.
asyncify_call(N, key, t) == Put(N, key, Node(t))

\* map: () => async().then(f)
map_call(N, key, t) == start(Put(N, key, Node(t)), Child(key, 1), t.p)

map_then(N, key) ==
    LET nd == N[key]
        c  == N[Child(key, 1)]
        N1 == [N EXCEPT ![key].fc = @ + 1]
    IN  IF c.st = "rejected" THEN Reject(N, key, c.val)
        ELSE IF Throws(nd.t.f) THEN Reject(N1, key, Thrown(nd.t.f, key))
        ELSE Resolve(N1, key, Apply(nd.t.f, c.val))

\* bind: () => async().then(a => f(a)())
bind_call(N, key, t) == start(Put(N, key, Node(t)), Child(key, 1), t.p)

\* Mutant of bind_then: the producer f returns is handed on as the value and
\* is never started (then(f) in place of then(a => f(a)())).
bind_then_unstarted(N, key) ==
    LET nd == N[key]
        c  == N[Child(key, 1)]
        N1 == [N EXCEPT ![key].fc = @ + 1, ![key].i = 1]
    IN  IF c.st = "rejected" THEN Reject(N, key, c.val)
        ELSE IF Throws(nd.t.f) THEN Reject(N1, key, Thrown(nd.t.f, key))
        ELSE Resolve(N1, key, ApplyBind(nd.t.f, c.val))

bind_then(N, key) ==
    LET nd == N[key]
        c  == N[Child(key, 1)]
        N1 == [N EXCEPT ![key].fc = @ + 1, ![key].i = 1]
    IN  IF c.st = "rejected" THEN Reject(N, key, c.val)
        ELSE IF Throws(nd.t.f) THEN Reject(N1, key, Thrown(nd.t.f, key))
        ELSE start(N1, Child(key, 2), ApplyBind(nd.t.f, c.val))

\* flatten: () => async().then(inner => inner())
flatten_call(N, key, t) == start(Put(N, key, Node(t)), Child(key, 1), t.p)

flatten_then(N, key) ==
    LET c  == N[Child(key, 1)]
        N1 == [N EXCEPT ![key].i = 1]
    IN  IF c.st = "rejected" THEN Reject(N, key, c.val)
        ELSE start(N1, Child(key, 2), c.val)

\* Mutant of delay_ms: the number is floored and not clamped.
delay_ms_floored(delayInMilliseconds) ==
    delayInMilliseconds.num \div delayInMilliseconds.den

\* delay, line 122: delayInMilliseconds <= 0 ? 0 : Math.floor(delayInMilliseconds)
\* The input is the rational num / den, den > 0.
delay_ms(delayInMilliseconds) ==
    IF delayInMilliseconds.num <= 0
        THEN 0
        ELSE delayInMilliseconds.num \div delayInMilliseconds.den

\* Mutant of delay_call: the wrapped producer is called without waiting for
\* the timer.
delay_call_nowait(N, key, t) ==
    start([Put(N, key, Node(t)) EXCEPT ![key].ms = delay_ms(t.ms),
                                       ![key].timer = "armed", ![key].i = 1],
          Child(key, 1), t.p)

\* delay, lines 122-123: the timer is armed and the body waits for it.
delay_call(N, key, t) ==
    [Put(N, key, Node(t)) EXCEPT ![key].ms = delay_ms(t.ms),
                                 ![key].timer = "armed"]

\* delay, line 125, after the timer's promise resolved: async() is called.
delay_resume(N, key) ==
    start([N EXCEPT ![key].i = 1], Child(key, 1), N[key].t.p)

\* delay, line 125: return await async()
delay_return(N, key) == Adopt(N, key, Child(key, 1))

\* Mutant of sequential_loop: the next producer is called before the current
\* one is awaited.
sequential_loop_ahead(N, key, t, i, results) ==
    LET N1 == [N EXCEPT ![key].i = i, ![key].acc = results]
        N2 == start(N1, Child(key, i + 1), t.ps[i + 1])
    IN  IF i < Len(t.ps)
            THEN IF i + 1 < Len(t.ps)
                    THEN start(N2, Child(key, i + 2), t.ps[i + 2])
                    ELSE N2
            ELSE Resolve(N1, key, results)

\* sequential, lines 139-143: the loop from its head with the given i and
\* results, up to the next await or the return.
sequential_loop(N, key, t, i, results) ==
    LET N1 == [N EXCEPT ![key].i = i, ![key].acc = results]
    IN  IF i < Len(t.ps)
            THEN start(N1, Child(key, i + 1), t.ps[i + 1])
            ELSE Resolve(N1, key, results)

\* Mutant of sequential_call: results is one array kept by the producer, not
\* one per call; a call goes on from what the first run's call has collected.
sequential_call_shared(N, key, t) ==
    LET first == <<1>> \o Tail(key)
    IN  IF key[1] > 1 /\ first \in DOMAIN N
            THEN sequential_loop(Put(N, key, Node(t)), key, t, 0, N[first].acc)
            ELSE sequential_loop(Put(N, key, Node(t)), key, t, 0, <<>>)

\* sequential, lines 136-139: const results = []; let i = 0
sequential_call(N, key, t) ==
    sequential_loop(Put(N, key, Node(t)), key, t, 0, <<>>)

\* Mutant of sequential_resume: a failure is skipped and the loop goes on
\* with the results collected so far.
sequential_resume_skip(N, key) ==
    LET nd == N[key]
        c  == N[Child(key, nd.i + 1)]
    IN  IF c.st = "rejected"
            THEN sequential_loop(N, key, nd.t, nd.i + 1, nd.acc)
            ELSE sequential_loop(N, key, nd.t, nd.i + 1, Append(nd.acc, c.val))

\* Mutant of sequential_resume: an Err outcome ends the loop with the results
\* collected so far.
sequential_resume_short(N, key) ==
    LET nd == N[key]
        c  == N[Child(key, nd.i + 1)]
    IN  IF c.st = "rejected" THEN Reject(N, key, c.val)
        ELSE IF c.t.k = "asyncify" /\ c.val.tag = "Err"
            THEN Resolve(N, key, Append(nd.acc, c.val))
        ELSE sequential_loop(N, key, nd.t, nd.i + 1, Append(nd.acc, c.val))

\* sequential, line 140 after the await: results.push(value); i++
sequential_resume(N, key) ==
    LET nd == N[key]
        c  == N[Child(key, nd.i + 1)]
    IN  IF c.st = "rejected" THEN Reject(N, key, c.val)
        ELSE sequential_loop(N, key, nd.t, nd.i + 1, Append(nd.acc, c.val))

\* parallel: asyncs.map(start), every producer called in index order.
RECURSIVE parallel_map_start(_, _, _, _)
parallel_map_start(N, key, asyncs, j) ==
    IF j > Len(asyncs)
        THEN N
        ELSE parallel_map_start(start(N, Child(key, j), asyncs[j]),
                                key, asyncs, j + 1)

\* parallel: Promise.all over the promises just obtained.  acc holds the
\* values array, i the number of elements resolved so far.
parallel_call(N, key, t) ==
    LET N1 == parallel_map_start(Put(N, key, Node(t)), key, t.ps, 1)
        N2 == [N1 EXCEPT ![key].acc = [j \in 1..Len(t.ps) |-> NoVal]]
    IN  IF Len(t.ps) = 0 THEN Resolve(N2, key, <<>>) ELSE N2

\* Mutant of parallel_element: the first failure aborts the producers of the
\* list that are still pending, which fail with it.
parallel_element_abort(N, key, j) ==
    LET nd  == N[key]
        c   == N[Child(key, j)]
        N1  == [N EXCEPT ![key].done = Append(@, j)]
        acc == [nd.acc EXCEPT ![j] = c.val]
        N2  == [N1 EXCEPT ![key].acc = acc, ![key].i = @ + 1]
        N3  == [k \in DOMAIN N1 |->
                    IF /\ \E m \in 1..Len(nd.t.ps) : k = Child(key, m)
                       /\ N1[k].st = "pending"
                        THEN [N1[k] EXCEPT !.st = "rejected", !.val = c.val]
                        ELSE N1[k]]
    IN  IF c.st = "rejected"
            THEN IF nd.st = "pending" THEN Reject(N3, key, c.val) ELSE N1
            ELSE IF nd.i + 1 = Len(nd.t.ps) /\ nd.st = "pending"
                    THEN Resolve(N2, key, acc)
                    ELSE N2

\* Mutant of parallel_element: values are pushed in completion order.
parallel_element_push(N, key, j) ==
    LET nd  == N[key]
        c   == N[Child(key, j)]
        N1  == [N EXCEPT ![key].done = Append(@, j)]
        acc == [nd.acc EXCEPT ![nd.i + 1] = c.val]
        N2  == [N1 EXCEPT ![key].acc = acc, ![key].i = @ + 1]
    IN  IF c.st = "rejected"
            THEN IF nd.st = "pending" THEN Reject(N1, key, c.val) ELSE N1
            ELSE IF nd.i + 1 = Len(nd.t.ps) /\ nd.st = "pending"
                    THEN Resolve(N2, key, acc)
                    ELSE N2

\* Mutant of parallel_element: a failure is collected like a value
\* (Promise.allSettled in place of Promise.all).
parallel_element_settled(N, key, j) ==
    LET nd  == N[key]
        c   == N[Child(key, j)]
        acc == [nd.acc EXCEPT ![j] = c.val]
        N2  == [N EXCEPT ![key].done = Append(@, j), ![key].acc = acc,
                         ![key].i = @ + 1]
    IN  IF nd.i + 1 = Len(nd.t.ps) /\ nd.st = "pending"
            THEN Resolve(N2, key, acc)
            ELSE N2

\* Promise.all's reaction to element j: store the value and resolve once all
\* are in, or reject with the first failure seen.  Settling a settled promise
\* does nothing.
parallel_element(N, key, j) ==
    LET nd  == N[key]
        c   == N[Child(key, j)]
        N1  == [N EXCEPT ![key].done = Append(@, j)]
        acc == [nd.acc EXCEPT ![j] = c.val]
        N2  == [N1 EXCEPT ![key].acc = acc, ![key].i = @ + 1]
    IN  IF c.st = "rejected"
            THEN IF nd.st = "pending" THEN Reject(N1, key, c.val) ELSE N1
            ELSE IF nd.i + 1 = Len(nd.t.ps) /\ nd.st = "pending"
                    THEN Resolve(N2, key, acc)
                    ELSE N2

\* tee: const a = await async(); f(a); return a
tee_call(N, key, t) == start(Put(N, key, Node(t)), Child(key, 1), t.p)

tee_resume(N, key) ==
    LET nd == N[key]
        c  == N[Child(key, 1)]
        N1 == [N EXCEPT ![key].fc = @ + 1]
    IN  IF c.st = "rejected" THEN Reject(N, key, c.val)
        ELSE IF Throws(nd.t.f) THEN Reject(N1, key, Thrown(nd.t.f, key))
        ELSE Resolve(N1, key, c.val)

\* Calling a producer: the synchronous part of its body.
Invoke(t, key, N) ==
    CASE t.k = "of"         -> of_call(N, key, t)
      [] t.k = "asyncify"   -> asyncify_call(N, key, t)
      [] t.k = "map"        -> map_call(N, key, t)
      [] t.k = "bind"       -> bind_call(N, key, t)
      [] t.k = "flatten"    -> flatten_call(N, key, t)
      [] t.k = "delay"      -> delay_call(N, key, t)
      [] t.k = "sequential" -> sequential_call(N, key, t)
      [] t.k = "parallel"   -> parallel_call(N, key, t)
      [] t.k = "tee"        -> tee_call(N, key, t)
      [] t.k = "ofPromise"  -> ofPromise_call(N, key, t)

\* The reaction job of the pending producer at key that can run now, on the
\* settled promise it waits for (element j for parallel).
JobEnabled(N, key, j) ==
    LET nd == N[key]
    IN  CASE nd.t.k \in {"map", "tee"} ->
                j = 1 /\ nd.st = "pending" /\ Settled(N, Child(key, 1))
          [] nd.t.k \in {"bind", "flatten"} ->
                /\ nd.st = "pending"
                /\ j = nd.i + 1
                /\ Settled(N, Child(key, j))
          [] nd.t.k = "delay" ->
                \/ j = 0 /\ nd.i = 0 /\ nd.timer = "fired"
                \/ j = 1 /\ nd.i = 1 /\ nd.st = "pending" /\ Settled(N, Child(key, 1))
          [] nd.t.k = "sequential" ->
                /\ nd.st = "pending"
                /\ j = nd.i + 1
                /\ Settled(N, Child(key, j))
          [] nd.t.k = "parallel" ->
                /\ j \in 1..Len(nd.t.ps)
                /\ \A d \in 1..Len(nd.done) : nd.done[d] # j
                /\ Settled(N, Child(key, j))
          [] OTHER -> FALSE

RunJob(N, key, j) ==
    LET nd == N[key]
    IN  CASE nd.t.k = "map"        -> map_then(N, key)
          [] nd.t.k = "tee"        -> tee_resume(N, key)
          [] nd.t.k = "bind"       ->
                IF j = 1 THEN bind_then(N, key) ELSE Adopt(N, key, Child(key, 2))
          [] nd.t.k = "flatten"    ->
                IF j = 1 THEN flatten_then(N, key) ELSE Adopt(N, key, Child(key, 2))
          [] nd.t.k = "delay"      ->
                IF j = 0 THEN delay_resume(N, key) ELSE delay_return(N, key)
          [] nd.t.k = "sequential" -> sequential_resume(N, key)
          [] nd.t.k = "parallel"   -> parallel_element(N, key, j)

\* ------------------------------------------------------------ the machine
\* Inputs of delay: -5, 0 and 3/2 milliseconds.
DelayInputs ==
    {[num |-> -5, den |-> 1], [num |-> 0, den |-> 1], [num |-> 3, den |-> 2]}

\* The list [async, a2 .. an] of n producers.
ListOf(async, n) ==
    [j \in 1..n |-> IF j = 1 THEN async ELSE Async_asyncify(j)]

\* The asyncified producers a constructed Async holds.
RECURSIVE Leaves(_)
Leaves(t) ==
    CASE t.k = "asyncify" -> 1
      [] t.k \in {"of", "ofPromise"} -> 0
      [] t.k = "flatten" -> Leaves(t.p.a)
      [] t.k \in {"sequential", "parallel"} ->
            IF Len(t.ps) = 0 THEN 0 ELSE Leaves(t.ps[1]) + Len(t.ps) - 1
      [] OTHER -> Leaves(t.p)

ListLengths(async) == {n \in 0..MaxLen : n = 0 \/ Leaves(async) + n - 1 <= MaxLen}

\* What one more combinator makes of the producer constructed so far.
Wrappers(async) ==
    {Async_map(f, async) : f \in Fns}
        \cup {Async_bind(f, async) : f \in BindFns}
        \cup {Async_flatten(Async_of(async))}
        \cup {Async_delay(ms, async) : ms \in DelayInputs}
        \cup {Async_tee(f, async) : f \in TeeFns}
        \cup {Async_sequential(ListOf(async, n)) : n \in ListLengths(async)}
        \cup {Async_parallel(ListOf(async, n)) : n \in ListLengths(async)}

RECURSIVE Depth(_)
Depth(t) ==
    CASE t.k \in {"asyncify", "of", "ofPromise"} -> 0
      [] t.k = "flatten" -> 1 + Depth(t.p.a)
      [] t.k \in {"sequential", "parallel"} ->
            IF Len(t.ps) = 0 THEN 1 ELSE 1 + Depth(t.ps[1])
      [] OTHER -> 1 + Depth(t.p)

\* Nothing has been constructed but the innermost producer, asyncify(f)(1).
InitAsync ==
    /\ prog = Async_asyncify(1)
    /\ runs = 0
    /\ nodes = <<>>

\* No Result has been piped and delay has been given no number.
InitPure ==
    /\ rv = rin
    /\ rchain = <<>>
    /\ rargs = <<>>
    /\ rlog = <<>>
    /\ rthrown = FALSE
    /\ delayIn = [num |-> 0, den |-> 1]
    /\ delayOut = -1

Init ==
    /\ InitAsync
    /\ rin = Ok(Num(0))
    /\ InitPure

\* Mutant of Construct: the combinator calls the producer it has just built
\* (a hot promise).
ConstructHot(t) ==
    /\ runs = 0
    /\ Depth(prog) < MaxDepth
    /\ prog' = t
    /\ nodes' = start(nodes, <<0>>, t)
    /\ UNCHANGED <<runs, rvars>>

\* A combinator is applied to the producer built so far: line 61-62, 77-78,
\* 89-90, 120-121, 135-136, 167-168, 219-220 return a closure.
Construct(t) ==
    /\ runs = 0
    /\ Depth(prog) < MaxDepth
    /\ prog' = t
    /\ UNCHANGED <<runs, nodes, rvars>>

\* Async.start(prog)
StartProducer ==
    /\ runs < MaxStarts
    /\ runs' = runs + 1
    /\ nodes' = start(nodes, <<runs + 1>>, prog)
    /\ UNCHANGED <<prog, rvars>>

\* The promise handed back by an asyncified f settles: with an Ok or an Err
\* (the AsyncResult case), or it is rejected.
Outcomes == {"Ok", "Err", "reject"}

Settle(key, o) ==
    /\ nodes[key].t.k = "asyncify"
    /\ nodes[key].st = "pending"
    /\ nodes' = CASE o = "Ok"     -> Resolve(nodes, key, Ok(key))
                  [] o = "Err"    -> Resolve(nodes, key, Err(key))
                  [] o = "reject" -> Reject(nodes, key, <<"rejected", key>>)
    /\ UNCHANGED <<prog, runs, rvars>>

\* The timer armed by delay goes off: setTimeout calls resolve.
TimerFire(key) ==
    /\ nodes[key].timer = "armed"
    /\ nodes' = [nodes EXCEPT ![key].timer = "fired"]
    /\ UNCHANGED <<prog, runs, rvars>>

\* One promise reaction job runs.
Job(key, j) ==
    /\ JobEnabled(nodes, key, j)
    /\ nodes' = RunJob(nodes, key, j)
    /\ UNCHANGED <<prog, runs, rvars>>

JobIndexes == 0..(IF MaxLen < 2 THEN 2 ELSE MaxLen)

Next ==
    \/ \E t \in Wrappers(prog) : Construct(t)
    \/ StartProducer
    \/ \E key \in DOMAIN nodes, o \in Outcomes : Settle(key, o)
    \/ \E key \in DOMAIN nodes : TimerFire(key)
    \/ \E key \in DOMAIN nodes, j \in JobIndexes : Job(key, j)

Spec == Init /\ [][Next]_vars

\* ------------------------------------------- the machine, from ofPromise
\* The caller's promise, made before anything is constructed
\* (const statusPromise = safeWriteToFile("I love cheese")): n counts how often
\* the work behind it was started.
HotPromise == <<0>>

\* const statusAsync = Async.ofPromise(statusPromise)
InitHot ==
    /\ prog = Async_ofPromise(HotPromise)
    /\ runs = 0
    /\ nodes = (HotPromise :> Node([k |-> "promise"]))
    /\ rin = Ok(Num(0))
    /\ InitPure

\* What one more combinator makes of the producer: a projection of it, and a
\* list that holds it twice.
HotWrappers(async) ==
    {Async_map(f, async) : f \in Fns}
        \cup {Async_sequential(<<async, async>>)}
        \cup {Async_parallel(<<async, async>>)}

\* The work behind the caller's promise ends and the promise settles.  Every
\* call of the ofPromise producer returned this very promise.
PromiseSettle(o) ==
    /\ nodes[HotPromise].st = "pending"
    /\ LET st == IF o = "reject" THEN "rejected" ELSE "fulfilled"
           val == CASE o = "Ok"     -> Ok(HotPromise)
                    [] o = "Err"    -> Err(HotPromise)
                    [] o = "reject" -> <<"rejected", HotPromise>>
       IN  nodes' = [key \in DOMAIN nodes |->
                        IF key = HotPromise \/ nodes[key].promise = HotPromise
                            THEN [nodes[key] EXCEPT !.st = st, !.val = val]
                            ELSE nodes[key]]
    /\ UNCHANGED <<prog, runs, rvars>>

NextHot ==
    \/ \E t \in HotWrappers(prog) : Depth(prog) < MaxHotDepth /\ Construct(t)
    \/ StartProducer
    \/ \E o \in Outcomes : PromiseSettle(o)
    \/ \E key \in DOMAIN nodes, j \in JobIndexes : Job(key, j)

SpecHot == InitHot /\ [][NextHot]_vars

\* --------------------------------------------- the pure functions, applied
\* The Results a pipeline starts from, and those map2 / map3 are given.
ResultInputs ==
    {Ok(Num(n)) : n \in 0..MaxNum} \cup {Err(Num(n)) : n \in 0..MaxNum}

\* The functions handed to bind: they return a Result, or throw.
ResultFns == {"half", "okinc", "fail", "boom"}

\* The functions handed to tryCatch as mightThrow, and what is handed to it
\* as onThrow.
MightThrowFns == {"one", "boom", "boomStr", "boomErr", "boomBare"}

OnThrows == {Undefined, Null, Fn("handle")}

\* The defaults handed to defaultValue: a number, and a function (a Result of
\* functions has a function as its default).
Defaults == {Num(0), Fn("id")}

\* The functions handed to defaultWith.
DefaultFns == {"one", "arity"}

\* The functions handed to tee and teeErr.
ResultTeeFns == {"log", "id", "boom"}

DelayDomain == [num : -MaxMs..MaxMs, den : 1..MaxDen]

\* The combinators that take the payload out of the Result: what they return
\* is piped into no further Result combinator.
Unwrapping == {"defaultValue", "defaultWith"}

\* The combinator op(f) was applied to args and ended as o.
Applied(op, f, args, o) ==
    /\ Len(rchain) < MaxChain
    /\ IF rchain = <<>> THEN TRUE ELSE rchain[Len(rchain)].op \notin Unwrapping
    /\ ~rthrown
    /\ delayOut = -1
    /\ rv' = o.ret
    /\ rchain' = Append(rchain, [op |-> op, f |-> f])
    /\ rargs' = args
    /\ rlog' = Append(rlog, o.calls)
    /\ rthrown' = o.thrown
    /\ UNCHANGED <<rin, delayIn, delayOut, avars>>

\* pipe(rv, Result.map(f))
MapStep(f) == Applied("map", f, <<rv>>, Result_map(Fn(f), rv))

\* pipe(rv, Result.bind(f))
BindStep(f) == Applied("bind", f, <<rv>>, Result_bind(Fn(f), rv))

\* pipe(rv, Result.bind(a2 => Result.bind(g)(f(a2)))), at the head of a pipeline
BindAfterStep(f, g) ==
    /\ rchain = <<>>
    /\ Applied("bind_after", <<f, g>>, <<rv>>,
               Result_bind(BindAfter(Fn(f), Fn(g)), rv))

\* pipe([rv, b], Result.map2(f)), at the head of a pipeline
Map2Step(f, b) ==
    /\ rchain = <<>>
    /\ Applied("map2", f, <<rv, b>>, map2(Fn(f), <<rv, b>>))

\* pipe([rv, b, c], Result.map3(f)), at the head of a pipeline
Map3Step(f, b, c) ==
    /\ rchain = <<>>
    /\ Applied("map3", f, <<rv, b, c>>, map3(Fn(f), <<rv, b, c>>))

\* pipe(rv, Result.defaultValue(a))
DefaultValueStep(a) ==
    Applied("defaultValue", "", <<rv, a>>, defaultValue(a, rv))

\* pipe(rv, Result.defaultWith(f))
DefaultWithStep(f) ==
    Applied("defaultWith", f, <<rv>>, defaultWith(Fn(f), rv))

\* pipe(rv, Result.tee(f))
TeeStep(f) == Applied("tee", f, <<rv>>, Result_tee(Fn(f), rv))

\* pipe(rv, Result.teeErr(f))
TeeErrStep(f) == Applied("teeErr", f, <<rv>>, Result_teeErr(Fn(f), rv))

\* Result.tryCatch(f, onThrow) at the head of a pipeline
TryCatchStep(f, onThrow) ==
    /\ rchain = <<>>
    /\ Applied("tryCatch", f, <<Fn(f), onThrow>>, tryCatch(Fn(f), onThrow))

\* delay(ms) computes its pause (line 122).
DelayMs(ms) ==
    /\ rchain = <<>>
    /\ delayOut = -1
    /\ delayIn' = ms
    /\ delayOut' = delay_ms(ms)
    /\ UNCHANGED <<rin, rv, rchain, rargs, rlog, rthrown, avars>>

InitResult ==
    /\ InitAsync
    /\ rin \in ResultInputs
    /\ InitPure

NextPure ==
    \/ \E f \in {"inc", "id", "boom"} : MapStep(f)
    \/ \E f \in ResultFns : BindStep(f)
    \/ \E f, g \in ResultFns : BindAfterStep(f, g)
    \/ \E a \in Defaults : DefaultValueStep(a)
    \/ \E f \in DefaultFns : DefaultWithStep(f)
    \/ \E f \in ResultTeeFns : TeeStep(f)
    \/ \E f \in ResultTeeFns : TeeErrStep(f)
    \/ \E f \in MightThrowFns, onThrow \in OnThrows : TryCatchStep(f, onThrow)
    \/ \E b \in ResultInputs : Map2Step("add", b)
    \/ \E b, c \in ResultInputs : Map3Step("add", b, c)
    \/ \E ms \in DelayDomain : DelayMs(ms)

SpecPure == InitResult /\ [][NextPure]_vars

\* ------------------------------ projections that throw, in both libraries
\* A behaviour is a pipeline of Result combinators or a run of the Async
\* machine over map and bind; the two share no state.
ThrowWrappers(async) ==
    {Async_map(f, async) : f \in Fns}
        \cup {Async_bind(f, async) : f \in BindFns}

NoPipeline == rchain = <<>> /\ delayOut = -1

NoAsync == runs = 0 /\ prog = Async_asyncify(1)

NextThrow ==
    \/ \E f \in {"inc", "boom"} : NoAsync /\ MapStep(f)
    \/ \E f \in {"half", "boom"} : NoAsync /\ BindStep(f)
    \/ \E f \in MightThrowFns, onThrow \in OnThrows :
            NoAsync /\ TryCatchStep(f, onThrow)
    \/ \E t \in ThrowWrappers(prog) : NoPipeline /\ Construct(t)
    \/ NoPipeline /\ runs < MaxThrowStarts /\ StartProducer
    \/ \E key \in DOMAIN nodes, o \in Outcomes : Settle(key, o)
    \/ \E key \in DOMAIN nodes, j \in JobIndexes : Job(key, j)

SpecThrow == InitResult /\ [][NextThrow]_vars

\* ----------------------------------------------------------------- claims
Invoked(key) == key \in DOMAIN nodes

Pending(key) == Invoked(key) /\ nodes[key].st = "pending"

Fulfilled(key) == Invoked(key) /\ nodes[key].st = "fulfilled"

Rejected(key) == Invoked(key) /\ nodes[key].st = "rejected"

KeysOf(kind) == {key \in DOMAIN nodes : nodes[key].t.k = kind}

Elements(key) == 1..Len(nodes[key].t.ps)

\* C1: once sequential(list) is started, a(i+1) is called only after a(i) has
\* resolved: at most one producer of the list is pending at any time, the
\* producers are called in index order, each at most once and, when the combined
\* producer resolves, exactly once, and the combined producer resolves only
\* after every producer up to an has resolved.
C1_SequentialOneAtATime ==
    \A key \in KeysOf("sequential") :
        /\ Cardinality({j \in Elements(key) : Pending(Child(key, j))}) <= 1
        /\ \A j \in Elements(key) :
                Invoked(Child(key, j)) =>
                    /\ nodes[Child(key, j)].n = 1
                    /\ j > 1 => Fulfilled(Child(key, j - 1))
        /\ Fulfilled(key) => \A j \in Elements(key) : Fulfilled(Child(key, j))

C1_Witness ==
    \E key \in KeysOf("sequential") :
        /\ Len(nodes[key].t.ps) >= 2
        /\ Fulfilled(key)
        /\ nodes[key].t.ps[1].k = "asyncify"

\* C2: when parallel(list) resolves, its value is a sequence of the length of
\* the list whose j-th element is the value aj resolved with, in whatever order
\* the producers completed.
C2_ParallelInputOrder ==
    \A key \in KeysOf("parallel") :
        Fulfilled(key) =>
            /\ Len(nodes[key].val) = Len(nodes[key].t.ps)
            /\ \A j \in Elements(key) :
                    /\ Fulfilled(Child(key, j))
                    /\ nodes[key].val[j] = nodes[Child(key, j)].val

\* The second producer completed first, with Ok; the first yielded Err; and
\* the result is delivered in input order.
C2_Witness ==
    \E key \in KeysOf("parallel") :
        /\ Fulfilled(key)
        /\ nodes[key].done = <<2, 1>>
        /\ nodes[key].t.ps[1].k = "asyncify"
        /\ nodes[key].val = <<Err(Child(key, 1)), Ok(Child(key, 2))>>

\* C3: constructing an Async does no work.  Before the constructed producer is
\* started no producer has been called, no callback has run and no timer is
\* armed; every producer that was called belongs to a run that was started,
\* and was called by the producer wrapping it.
C3_ConstructionDoesNoWork ==
    /\ runs = 0 => DOMAIN nodes = {}
    /\ \A key \in DOMAIN nodes :
            /\ key[1] \in 1..runs
            /\ Len(key) > 1 => Invoked(SubSeq(key, 1, Len(key) - 1))

C3_Witness ==
    /\ runs = 0
    /\ Depth(prog) = 2
    /\ prog.k = "map"
    /\ prog.p.k = "parallel"
    /\ Len(prog.p.ps) = 2

\* The value an asyncified call resolved with comes from that very call.
OwnValue(key) == nodes[key].val \in {Ok(key), Err(key)}

\* C4: an Async is not memoized.  Every start calls the constructed producer
\* anew; every producer called in a run was called once in that run, and when
\* it has resolved, the producers it wraps were called and resolved in the same
\* run, its callback ran once in that run, and an asyncified call resolved with
\* the value of that run's own call.
C4_NotMemoized ==
    /\ \A r \in 1..runs : Invoked(<<r>>) /\ nodes[<<r>>].t = prog
    /\ \A key \in DOMAIN nodes :
        LET nd == nodes[key]
        IN  /\ nd.n = 1
            /\ Fulfilled(key) =>
                CASE nd.t.k = "asyncify" -> OwnValue(key)
                  [] nd.t.k \in {"map", "tee"} ->
                        Fulfilled(Child(key, 1)) /\ nd.fc = 1
                  [] nd.t.k = "bind" ->
                        /\ Fulfilled(Child(key, 1))
                        /\ Fulfilled(Child(key, 2))
                        /\ nd.fc = 1
                  [] nd.t.k = "delay" -> Fulfilled(Child(key, 1)) /\ nd.ms >= 0
                  [] nd.t.k \in {"sequential", "parallel"} ->
                        \A j \in Elements(key) : Fulfilled(Child(key, j))
                  [] OTHER -> TRUE

C4_Witness ==
    /\ runs = 2
    /\ Fulfilled(<<1>>)
    /\ Fulfilled(<<2>>)
    /\ prog.k = "map"
    /\ prog.p.k = "sequential"
    /\ Len(prog.p.ps) = 2
    /\ nodes[<<1>>].val # nodes[<<2>>].val

\* C5: parallel(list) never resolves when a producer of the list has failed,
\* and it has failed as soon as Promise.all has heard of a failure, whatever
\* the other producers do and in whatever order.
C5_ParallelFailsOnAnyFailure ==
    \A key \in KeysOf("parallel") :
        /\ (\E j \in Elements(key) : Rejected(Child(key, j))) => ~Fulfilled(key)
        /\ \A d \in 1..Len(nodes[key].done) :
                Rejected(Child(key, nodes[key].done[d])) =>
                    /\ Rejected(key)
                    /\ \E j \in Elements(key) :
                            /\ Rejected(Child(key, j))
                            /\ nodes[key].val = nodes[Child(key, j)].val

\* One producer resolved and was heard of first, the other failed.
C5_Witness ==
    \E key \in KeysOf("parallel") :
        /\ Rejected(key)
        /\ nodes[key].done = <<1, 2>>
        /\ Fulfilled(Child(key, 1))
        /\ Rejected(Child(key, 2))

\* C6: sequential and parallel over producers of Results do not short-circuit
\* on Err.  The combined producer fails only when a producer of the list
\* fails; sequential, having taken j outcomes (Ok or Err alike), holds them in
\* input order and has called the next producer; and the combined producer
\* resolves with every outcome in input order.
C6_NoShortCircuitOnErr ==
    \A key \in KeysOf("sequential") \cup KeysOf("parallel") :
        LET nd == nodes[key]
        IN  /\ Rejected(key) => \E j \in Elements(key) : Rejected(Child(key, j))
            /\ nd.t.k = "sequential" =>
                /\ \A j \in 1..nd.i :
                        /\ Fulfilled(Child(key, j))
                        /\ nd.acc[j] = nodes[Child(key, j)].val
                /\ Len(nd.acc) = nd.i
                /\ nd.i < Len(nd.t.ps) => Invoked(Child(key, nd.i + 1))
                /\ nd.i = Len(nd.t.ps) => Fulfilled(key)
            /\ (/\ nd.t.k = "parallel"
                /\ \A j \in Elements(key) :
                        /\ Fulfilled(Child(key, j))
                        /\ \E d \in 1..Len(nd.done) : nd.done[d] = j)
                    => Fulfilled(key)
            /\ Fulfilled(key) =>
                /\ Len(nd.val) = Len(nd.t.ps)
                /\ \A j \in Elements(key) :
                        /\ Fulfilled(Child(key, j))
                        /\ nd.val[j] = nodes[Child(key, j)].val

\* sequential([a1, a2]): a1 yields Err, a2 is called all the same and yields
\* Ok, and both outcomes are delivered.
C6_Witness ==
    \E key \in KeysOf("sequential") :
        /\ Fulfilled(key)
        /\ Len(nodes[key].t.ps) = 2
        /\ nodes[key].t.ps[1].k = "asyncify"
        /\ nodes[key].val = <<Err(Child(key, 1)), Ok(Child(key, 2))>>

\* C7: delay(ms)(p), once started, arms the pause first; p is not called
\* before the pause has elapsed and the body has resumed; p is called once;
\* and the delayed producer settles only after p has, with p's outcome.
C7_DelayThenProducer ==
    \A key \in KeysOf("delay") :
        LET nd == nodes[key]
        IN  /\ nd.timer # "none" /\ nd.ms >= 0
            /\ Invoked(Child(key, 1)) =>
                /\ nd.timer = "fired"
                /\ nd.i = 1
                /\ nodes[Child(key, 1)].n = 1
            /\ nd.i = 1 => Invoked(Child(key, 1))
            /\ nd.st # "pending" =>
                /\ Invoked(Child(key, 1))
                /\ nd.st = nodes[Child(key, 1)].st
                /\ nd.val = nodes[Child(key, 1)].val

C7_Witness ==
    \E key \in KeysOf("delay") :
        /\ nodes[key].ms = 1
        /\ Fulfilled(key)
        /\ nodes[key].t.p.k = "asyncify"
        /\ nodes[key].val = Ok(Child(key, 1))

\* The largest integer not above the rational q.
Floor(q) == q.num \div q.den

Max(a, b) == IF a >= b THEN a ELSE b

\* C8: the pause delay(ms) uses is max(0, floor(ms)): never negative, 0 for
\* every ms <= 0 (so delay(-5) pauses as delay(0) does), and every number is
\* given a pause.
C8_DelayPause ==
    delayOut # -1 =>
        /\ delayOut = Max(0, Floor(delayIn))
        /\ delayOut >= 0
        /\ delayIn.num <= 0 => delayOut = delay_ms([num |-> 0, den |-> 1])

C8_Witness ==
    /\ delayIn = [num |-> -5, den |-> 1]
    /\ delayOut = 0

LastOp == rchain[Len(rchain)].op

LastF == rchain[Len(rchain)].f

LastCalls == rlog[Len(rlog)]

Payloads(results) == [k \in 1..Len(results) |-> results[k].ok]

\* The lowest index of an Err in the tuple.
FirstErr(results) ==
    CHOOSE k \in 1..Len(results) :
        isErr(results[k]) /\ \A j \in 1..(k - 1) : isOk(results[j])

\* C9: map2(f) and map3(f) return Ok(f(payloads)) when every element of the
\* tuple is Ok, calling f once with the payloads, and otherwise the Err of
\* lowest index, without calling f.
C9_MapNFirstErr ==
    (rchain # <<>> /\ LastOp \in {"map2", "map3"}) =>
        /\ ~rthrown
        /\ Len(rargs) = (IF LastOp = "map2" THEN 2 ELSE 3)
        /\ IF \A k \in 1..Len(rargs) : isOk(rargs[k])
            THEN /\ rv = Ok(UserFn(LastF, Payloads(rargs)).ret)
                 /\ LastCalls = <<[f |-> LastF, args |-> Payloads(rargs)]>>
            ELSE /\ rv = Err(rargs[FirstErr(rargs)].err)
                 /\ LastCalls = <<>>

\* map2(f)([Err(0), Err(1)]) is Err(0).
C9_Witness ==
    /\ rchain # <<>>
    /\ LastOp = "map2"
    /\ rargs = <<Err(Num(0)), Err(Num(1))>>
    /\ rv = Err(Num(0))

\* C10: map(f) and bind(f) hand an Err on with its payload and do not call
\* f; a pipeline of map and bind steps that starts from Err(e) has produced
\* Err(e) and called none of its functions.
C10_ErrPassesThrough ==
    /\ (rchain # <<>> /\ LastOp \in {"map", "bind"} /\ isErr(rargs[1])) =>
            /\ ~rthrown
            /\ rv = Err(rargs[1].err)
            /\ LastCalls = <<>>
    /\ (isErr(rin) /\ \A k \in 1..Len(rchain) : rchain[k].op \in {"map", "bind"}) =>
            /\ ~rthrown
            /\ rv = rin
            /\ \A k \in 1..Len(rlog) : rlog[k] = <<>>

\* Err(1) went through map(boom) and bind(half).
C10_Witness ==
    /\ rin = Err(Num(1))
    /\ Len(rchain) >= 2
    /\ rchain[1] = [op |-> "map", f |-> "boom"]
    /\ rchain[2] = [op |-> "bind", f |-> "half"]
    /\ rv = Err(Num(1))

\* What the pipeline has produced after its first k steps, from the record of
\* the calls: the steps bind(f), bind(g) redone on rin.
BindTwice(f, g) ==
    LET o1 == Result_bind(Fn(f), rin)
        o2 == Result_bind(Fn(g), o1.ret)
    IN  IF o1.thrown THEN o1 ELSE [o2 EXCEPT !.calls = o1.calls \o o2.calls]

\* C11: bind is associative.  From Ok(a), the two steps bind(f), bind(g) end
\* as the single step bind(a2 => bind(g)(f(a2))) does: the same Result (or the
\* same throw) and the same calls of f and g, whether f or g returns Ok or Err;
\* and the single step ends as the two steps do.
C11_BindAssociative ==
    /\ (/\ isOk(rin)
        /\ Len(rchain) = 2
        /\ rchain[1].op = "bind"
        /\ rchain[2].op = "bind")
            => LET rhs == Result_bind(BindAfter(Fn(rchain[1].f), Fn(rchain[2].f)), rin)
               IN  /\ rv = rhs.ret
                   /\ rthrown = rhs.thrown
                   /\ rlog[1] \o rlog[2] = rhs.calls
    /\ (/\ isOk(rin)
        /\ Len(rchain) = 1
        /\ rchain[1].op = "bind_after")
            => LET lhs == BindTwice(rchain[1].f[1], rchain[1].f[2])
               IN  /\ rv = lhs.ret
                   /\ rthrown = lhs.thrown
                   /\ rlog[1] = lhs.calls

\* From Ok(0): okinc then half, where half returns Err(1).
C11_Witness ==
    /\ rin = Ok(Num(0))
    /\ Len(rchain) = 2
    /\ rchain[1] = [op |-> "bind", f |-> "okinc"]
    /\ rchain[2] = [op |-> "bind", f |-> "half"]
    /\ rv = Err(Num(1))
    /\ rlog = <<(<<[f |-> "okinc", args |-> <<Num(0)>>]>>),
                (<<[f |-> "half", args |-> <<Num(1)>>]>>)>>

\* C12: map(id)(Ok(a)) is Ok(a), and map(f)(Err(e)) is Err(e) for every f.
C12_MapIdentity ==
    (rchain # <<>> /\ LastOp = "map") =>
        /\ (isOk(rargs[1]) /\ LastF = "id") => (~rthrown /\ rv = rargs[1])
        /\ isErr(rargs[1]) => (~rthrown /\ rv = rargs[1])

\* map(id) was applied to Ok(1).
C12_Witness ==
    /\ rchain # <<>>
    /\ LastOp = "map"
    /\ LastF = "id"
    /\ rargs = <<Ok(Num(1))>>
    /\ rv = Ok(Num(1))

\* C13, as claimed: tryCatch(f, onThrow) calls f once; when f returns v the
\* result is Ok(v) and onThrow is not called; when f throws t the result is
\* Err(onThrow(t)) if onThrow was given, else Err(t) for an Error t and Err of a
\* new Error whose message is the stringified t; nothing is thrown out of
\* tryCatch.
C13_TryCatchNeverThrows ==
    (Len(rchain) = 1 /\ rchain[1].op = "tryCatch") =>
        LET f == rchain[1].f
            onThrow == rargs[2]
            o == UserFn(f, <<>>)
            call == [f |-> f, args |-> <<>>]
        IN  /\ ~rthrown
            /\ rlog[1][1] = call
            /\ ~o.thrown => (rv = Ok(o.ret) /\ rlog[1] = <<call>>)
            /\ (o.thrown /\ onThrow.ty = "function") =>
                    /\ rv = Err(UserFn(onThrow.f, <<o.ret>>).ret)
                    /\ rlog[1] = <<call, [f |-> onThrow.f, args |-> <<o.ret>>]>>
            /\ (o.thrown /\ onThrow.ty # "function") =>
                    /\ rlog[1] = <<call>>
                    /\ isErr(rv)
                    /\ rv.err.ty = "error"
                    /\ o.ret.ty = "error" => rv.err = o.ret
                    /\ o.ret.ty = "string" => rv.err.message = o.ret.v
                    /\ o.ret = Num(-1) => rv.err.message = "-1"

\* tryCatch(() => { throw Object.create(null) }): the TypeError of String(err)
\* has left tryCatch.
C13_Witness ==
    /\ Len(rchain) = 1
    /\ rchain[1] = [op |-> "tryCatch", f |-> "boomBare"]
    /\ rargs[2] = Undefined
    /\ rthrown
    /\ rv = TypeError("Cannot convert object to primitive value")

\* C14, as claimed: defaultValue(x)(r) is the payload of an Ok r and x itself
\* for an Err r, whatever x is; defaultWith(f)(r) is the payload of an Ok r,
\* f not being called, and what f() returns for an Err r, f being called once.
C14_DefaultsAsClaimed ==
    /\ (rchain # <<>> /\ LastOp = "defaultValue") =>
            /\ ~rthrown
            /\ LastCalls = <<>>
            /\ isOk(rargs[1]) => rv = rargs[1].ok
            /\ isErr(rargs[1]) => rv = rargs[2]
    /\ (rchain # <<>> /\ LastOp = "defaultWith") =>
            /\ ~rthrown
            /\ isOk(rargs[1]) => (rv = rargs[1].ok /\ LastCalls = <<>>)
            /\ isErr(rargs[1]) =>
                    /\ rv = UserFn(LastF, <<>>).ret
                    /\ Len(LastCalls) = 1
                    /\ LastCalls[1].f = LastF

\* defaultValue(id)(Err(1)) has called the default and returned 1, not id.
C14_Witness ==
    /\ rchain # <<>>
    /\ LastOp = "defaultValue"
    /\ rargs = <<Err(Num(1)), Fn("id")>>
    /\ rv = Num(1)
    /\ LastCalls = <<[f |-> "id", args |-> <<Num(1)>>]>>

\* C15: tee(f) and teeErr(f) hand the Result on as it came.  tee calls f
\* once, with the payload, on an Ok and not at all on an Err; teeErr calls f
\* once, with the payload, on an Err and not at all on an Ok; what f returns
\* is dropped.  (When f throws, nothing is returned: the throw leaves tee.)
C15_TeeLeavesResult ==
    (rchain # <<>> /\ LastOp \in {"tee", "teeErr"}) =>
        LET r == rargs[1]
            hit == IF LastOp = "tee" THEN isOk(r) ELSE isErr(r)
            a == IF isOk(r) THEN r.ok ELSE r.err
            o == UserFn(LastF, <<a>>)
        IN  IF hit
                THEN /\ LastCalls = <<[f |-> LastF, args |-> <<a>>]>>
                     /\ rthrown = o.thrown
                     /\ rv = IF o.thrown THEN o.ret ELSE r
                ELSE /\ LastCalls = <<>>
                     /\ ~rthrown
                     /\ rv = r

\* Ok(1) went through tee(log) and came out as Ok(1); then the Err(1) that
\* bind(half) made of it went through teeErr(log).
C15_Witness ==
    /\ rin = Ok(Num(1))
    /\ Len(rchain) = 3
    /\ rchain[1] = [op |-> "tee", f |-> "log"]
    /\ rchain[2] = [op |-> "bind", f |-> "half"]
    /\ rchain[3] = [op |-> "teeErr", f |-> "log"]
    /\ rlog[1] = <<[f |-> "log", args |-> <<Num(1)>>]>>
    /\ rlog[3] = <<[f |-> "log", args |-> <<Num(1)>>]>>
    /\ rv = Err(Num(1))

\* C16: in a started bind(f)(p), f is called at most once and only after p
\* has resolved; the producer f returns (from p's value) is started once, and
\* only by that call; the combined producer resolves only after that inner
\* producer has, and with its value.  In a started map(f)(p), f is called at
\* most once and only after p has resolved, and the combined producer resolves
\* exactly when f has returned, with what f returned for p's value.
C16_BindMapOrder ==
    /\ \A key \in KeysOf("bind") :
            LET nd == nodes[key]
                p  == Child(key, 1)
                q  == Child(key, 2)
            IN  /\ Invoked(p)
                /\ nd.fc <= 1
                /\ nd.fc = 1 => Fulfilled(p)
                /\ Invoked(q) =>
                        /\ nd.fc = 1
                        /\ nodes[q].n = 1
                        /\ nodes[q].t = ApplyBind(nd.t.f, nodes[p].val)
                /\ (nd.fc = 1 /\ ~Throws(nd.t.f)) => Invoked(q)
                /\ Fulfilled(key) => (Fulfilled(q) /\ nd.val = nodes[q].val)
    /\ \A key \in KeysOf("map") :
            LET nd == nodes[key]
                p  == Child(key, 1)
            IN  /\ Invoked(p)
                /\ nd.fc <= 1
                /\ nd.fc = 1 => Fulfilled(p)
                /\ Fulfilled(key) =>
                        (nd.fc = 1 /\ nd.val = Apply(nd.t.f, nodes[p].val))
                /\ (nd.fc = 1 /\ ~Throws(nd.t.f)) => Fulfilled(key)

\* bind(spawn)(map(wrap)(p)) has resolved: p resolved, map's f ran, bind's f
\* returned a producer, which was started and resolved.
C16_Witness ==
    \E key \in KeysOf("bind") :
        /\ Fulfilled(key)
        /\ nodes[key].t.f = "spawn"
        /\ nodes[key].t.p.k = "map"
        /\ nodes[Child(key, 1)].val = Apply("wrap", Ok(Child(Child(key, 1), 1)))
        /\ nodes[key].val = Ok(Child(key, 2))

\* C17: ofPromise(p) wraps the reference to p.  The work behind p was started
\* once, by whoever made p, and is started by nothing else: not by constructing
\* a producer, not by starting it any number of times.  Every call of the
\* ofPromise producer returned p itself, settled or not as p is.
C17_OfPromiseWrapsReference ==
    /\ nodes[HotPromise].n = 1
    /\ \A key \in DOMAIN nodes : nodes[key].t.k = "promise" => key = HotPromise
    /\ \A key \in KeysOf("ofPromise") :
            /\ nodes[key].promise = HotPromise
            /\ nodes[key].st = nodes[HotPromise].st
            /\ nodes[key].val = nodes[HotPromise].val

\* parallel([ofPromise(p), ofPromise(p)]) was started twice, before and after
\* p resolved: four calls of the producer, one promise.
C17_Witness ==
    /\ runs = 2
    /\ prog = Async_parallel(<<Async_ofPromise(HotPromise), Async_ofPromise(HotPromise)>>)
    /\ Cardinality(KeysOf("ofPromise")) = 4
    /\ Fulfilled(HotPromise)
    /\ Fulfilled(<<1>>)
    /\ Pending(<<2>>)
    /\ nodes[<<1>>].val = <<Ok(HotPromise), Ok(HotPromise)>>

\* The calls of the last combinator that ended by a throw.
ThrownCalls ==
    {k \in DOMAIN LastCalls : UserFn(LastCalls[k].f, LastCalls[k].args).thrown}

\* C18: a throw inside a projection is not caught.  When the f of
\* Result.map(f) or Result.bind(f) throws on the Ok payload, the combinator
\* ends by that throw and no Result comes out; a combinator that returned
\* although a function it called threw is tryCatch, and it returned an Err.
\* When the f of a started Async.map(f)(p) or Async.bind(f)(p) is called (p
\* has resolved) and throws, the combined producer fails with what f threw;
\* it never resolves, and bind starts no inner producer.
C18_ProjectionThrowsPropagate ==
    /\ (rchain # <<>> /\ ThrownCalls # {}) =>
            IF LastOp \in {"map", "bind"}
                THEN /\ isOk(rargs[1])
                     /\ LastCalls = <<[f |-> LastF, args |-> <<rargs[1].ok>>]>>
                     /\ rthrown
                     /\ rv = UserFn(LastF, <<rargs[1].ok>>).ret
                ELSE /\ LastOp = "tryCatch"
                     /\ ~rthrown => isErr(rv)
    /\ (rchain # <<>> /\ LastOp \in {"map", "bind"} /\ isOk(rargs[1])
            /\ UserFn(LastF, <<rargs[1].ok>>).thrown) => rthrown
    /\ \A key \in KeysOf("map") \cup KeysOf("bind") :
            LET nd == nodes[key]
            IN  Throws(nd.t.f) =>
                    /\ ~Fulfilled(key)
                    /\ ~Invoked(Child(key, 2))
                    /\ nd.fc = 1 =>
                            /\ Fulfilled(Child(key, 1))
                            /\ Rejected(key)
                            /\ nd.val = Thrown(nd.t.f, key)

\* bind(boom)(map(wrap)(p)) was started, p resolved, the f of bind was called
\* and threw: the producer has failed with what f threw.
C18_Witness ==
    /\ runs = 1
    /\ prog = Async_bind("boom", Async_map("wrap", Async_asyncify(1)))
    /\ Fulfilled(<<1, 1>>)
    /\ nodes[<<1>>].fc = 1
    /\ Rejected(<<1>>)
    /\ nodes[<<1>>].val = Thrown("boom", <<1>>)

\* The pending producer called at key is not held up: the promise of its
\* asyncified call can settle, its timer can go off, its reaction job can run,
\* or a pending producer it waits for is not held up.
RECURSIVE CanProceed(_)
CanProceed(key) ==
    \/ nodes[key].t.k = "asyncify" /\ \A o \in Outcomes : ENABLED Settle(key, o)
    \/ nodes[key].timer = "armed" /\ ENABLED TimerFire(key)
    \/ \E j \in JobIndexes : ENABLED Job(key, j)
    \/ \E j \in JobIndexes \ {0} :
            Pending(Child(key, j)) /\ CanProceed(Child(key, j))

C20_SequentialStopsAtFailure ==
    \A key \in KeysOf("sequential") :
        LET nd == nodes[key]
        IN  /\ \A j \in Elements(key) :
                    Rejected(Child(key, j)) =>
                        /\ ~Fulfilled(key)
                        /\ j = nd.i + 1
                        /\ \A m \in Elements(key) : m > j => ~Invoked(Child(key, m))
            /\ Rejected(key) =>
                    /\ nd.i < Len(nd.t.ps)
                    /\ Rejected(Child(key, nd.i + 1))
                    /\ nd.val = nodes[Child(key, nd.i + 1)].val
                    /\ nd.val # nd.acc
                    /\ Len(nd.acc) = nd.i

\* sequential([a1, a2]) was started twice.  In the first run a1 resolved and
\* a2 failed: the combined producer failed with a2's failure, a1's result is
\* not delivered.  In the second run a1 failed: a2 was never called.
C20_Witness ==
    /\ runs = 2
    /\ prog = Async_sequential(<<Async_asyncify(1), Async_asyncify(2)>>)
    /\ Rejected(<<1>>)
    /\ nodes[<<1>>].acc = <<Ok(<<1, 1>>)>>
    /\ nodes[<<1>>].val = <<"rejected", <<1, 2>>>>
    /\ Rejected(<<2>>)
    /\ nodes[<<2>>].val = <<"rejected", <<2, 1>>>>
    /\ ~Invoked(<<2, 2>>)

\* The calls of one combined producer in the several runs: the same position
\* below the start, another run.
SameProducer(key, other) ==
    /\ key # other
    /\ Tail(key) = Tail(other)
    /\ nodes[key].t = nodes[other].t

\* The values of the asyncified producers of the list called at key that
\* have resolved.
OwnValues(key) ==
    {nodes[Child(key, j)].val : j \in {m \in Elements(key) :
        /\ Fulfilled(Child(key, m))
        /\ nodes[Child(key, m)].t.k = "asyncify"}}

\* The positions of asyncified producers at which the call at key holds a
\* value.
Collected(key) ==
    {m \in DOMAIN nodes[key].acc :
        /\ nodes[key].t.ps[m].k = "asyncify"
        /\ nodes[key].acc[m] # NoVal}

\* C21: concurrent starts of one combined producer do not interfere.  Every
\* call of sequential(list) holds the values of its own run's producers, in
\* list order and as many as it has awaited; every call of parallel(list)
\* holds at position j its own run's j-th value once Promise.all has heard of
\* it and nothing before; a call that
\* has resolved did so with exactly the n values of its own run in list
\* order.  A value of an asyncified producer of one run occurs, at its own
\* position only, in that run's sequence and in no other run's.
C21_RunsDoNotInterfere ==
    /\ \A key \in KeysOf("sequential") :
        LET nd == nodes[key]
        IN  /\ Len(nd.acc) = nd.i
            /\ \A j \in 1..Len(nd.acc) :
                    /\ Fulfilled(Child(key, j))
                    /\ nd.acc[j] = nodes[Child(key, j)].val
            /\ Fulfilled(key) =>
                    /\ nd.val = nd.acc
                    /\ Len(nd.val) = Len(nd.t.ps)
    /\ \A key \in KeysOf("parallel") :
        LET nd == nodes[key]
        IN  /\ DOMAIN nd.acc = Elements(key)
            /\ \A j \in Elements(key) :
                    IF /\ \E d \in 1..Len(nd.done) : nd.done[d] = j
                       /\ Fulfilled(Child(key, j))
                        THEN nd.acc[j] = nodes[Child(key, j)].val
                        ELSE nd.acc[j] = NoVal /\ ~Fulfilled(key)
            /\ Fulfilled(key) =>
                    /\ nd.val = nd.acc
                    /\ Len(nd.val) = Len(nd.t.ps)
    /\ \A key \in KeysOf("sequential") \cup KeysOf("parallel") :
        /\ \A j \in Elements(key) :
                (Fulfilled(Child(key, j)) /\ nodes[Child(key, j)].t.k = "asyncify") =>
                    /\ OwnValue(Child(key, j))
                    /\ \A m \in Collected(key) :
                            nodes[key].acc[m] = nodes[Child(key, j)].val => m = j
        /\ \A other \in DOMAIN nodes :
                SameProducer(key, other) =>
                    \A m \in Collected(other) :
                        nodes[other].acc[m] \notin OwnValues(key)

\* sequential([a1, a2]) was started twice and the runs interleaved: the first
\* run has collected a1's value and waits for a2, while the second run,
\* started later, has resolved with its own two values.
C21_Witness ==
    /\ runs = 2
    /\ prog = Async_sequential(<<Async_asyncify(1), Async_asyncify(2)>>)
    /\ Pending(<<1>>)
    /\ nodes[<<1>>].acc = <<Ok(<<1, 1>>)>>
    /\ Pending(<<1, 2>>)
    /\ Fulfilled(<<2>>)
    /\ nodes[<<2>>].val = <<Ok(<<2, 1>>), Err(<<2, 2>>)>>

====
